---- MODULE Spec2Model ----
(***************************************************************************)
(* Winnowing fingerprints, pairwise Jaccard similarity and the /plagiarism *)
(* batch handler of app.py.                                                *)
(*                                                                         *)
(* Texts are sequences of characters.  The character universe is a small   *)
(* sample of each class the code distinguishes: lowercase ASCII letters,   *)
(* uppercase ASCII letters, whitespace, punctuation, digits and U+212A     *)
(* KELVIN SIGN, a non-ASCII character that str.lower() maps to "k".        *)
(* A similarity is the exact fraction 100 * c / u in lowest terms.         *)
(***************************************************************************)
EXTENDS Integers, Sequences, FiniteSets, TLC

\* ---------------------------------------------------------------- bounds
MaxLen == 4
MaxRawLen == 3
MaxK == 2
MaxW == 2
MaxDocs == 3
MaxRequests == 1

\* ------------------------------------------------------------ characters
LowerLetters == {"a", "k"}
UpperLetters == {"A", "K"}
WhitespaceChars == {" ", "TAB"}
OtherChars == {"!", "1"}
KelvinSign == "KELVIN"
Chars == LowerLetters \cup UpperLetters \cup WhitespaceChars \cup OtherChars \cup {KelvinSign}

RECURSIVE TextsUpTo(_, _)
TextsUpTo(alphabet, n) ==
    IF n = 0 THEN {<<>>}
    ELSE LET shorter == TextsUpTo(alphabet, n - 1)
         IN shorter \cup {Append(t, c) : t \in {s \in shorter : Len(s) = n - 1}, c \in alphabet}

Range(s) == {s[n] : n \in 1..Len(s)}

\* ------------------------------------------------------- Python builtins
\* str.lower() on one character
LowerChar(c) ==
    CASE c = "A" -> "a"
      [] c = "K" -> "k"
      [] c = KelvinSign -> "k"
      [] OTHER -> c

\* s[lo:hi]
PyIndex(n, len) ==
    IF n < 0 THEN (IF n + len < 0 THEN 0 ELSE n + len)
    ELSE (IF n > len THEN len ELSE n)

PySlice(s, lo, hi) ==
    LET a == PyIndex(lo, Len(s))
        b == PyIndex(hi, Len(s))
    IN IF a < b THEN SubSeq(s, a + 1, b) ELSE <<>>

\* len(range(n))
RangeLen(n) == IF n < 0 THEN 0 ELSE n

\* min(window) for a non-empty list: the first smallest element
RECURSIVE PyMinFrom(_, _, _)
PyMinFrom(window, n, best) ==
    IF n > Len(window) THEN best
    ELSE PyMinFrom(window, n + 1, IF window[n] < best THEN window[n] ELSE best)

\* Variant: takes the first element of the window, not its minimum.
PyMin_First(window) == window[1]

PyMin(window) == PyMinFrom(window, 2, window[1])

\* set(list)
PySet(list) == Range(list)

\* ------------------------------------------------------------ normalizer
\* Variant: the text is not lowercased.
Lower_Skipped(text) == text

\* text.lower()
Lower(text) == [n \in 1..Len(text) |-> LowerChar(text[n])]

\* re.sub(r'[^a-z\s]', '', text)
KeepLettersAndSpace(text) ==
    LET Kept(c) == c \in LowerLetters \cup WhitespaceChars
    IN SelectSeq(text, Kept)

\* re.sub(r'\s+', ' ', text)
RECURSIVE CollapseWhitespace(_)
CollapseWhitespace(text) ==
    IF text = <<>> THEN <<>>
    ELSE IF Head(text) \in WhitespaceChars
         THEN IF Len(text) > 1 /\ text[2] \in WhitespaceChars
              THEN CollapseWhitespace(Tail(text))
              ELSE <<" ">> \o CollapseWhitespace(Tail(text))
         ELSE <<Head(text)>> \o CollapseWhitespace(Tail(text))

\* .strip()
RECURSIVE Strip(_)
Strip(text) ==
    IF text = <<>> THEN <<>>
    ELSE IF Head(text) \in WhitespaceChars THEN Strip(Tail(text))
    ELSE IF text[Len(text)] \in WhitespaceChars THEN Strip(SubSeq(text, 1, Len(text) - 1))
    ELSE text

\* text.replace(' ', '')
RemoveSpaces(text) ==
    LET NotSpace(c) == c # " "
    IN SelectSeq(text, NotSpace)

\* text_for_shingles
TextForShingles(text) ==
    RemoveSpaces(Strip(CollapseWhitespace(KeepLettersAndSpace(Lower(text)))))

\* ---------------------------------------------------------------- hasher
\* Position of a letters-only string in the table below: a leading 1
\* followed by one bit per letter ("a" = 0, "k" = 1).
RECURSIVE ShingleCode(_)
ShingleCode(s) ==
    IF s = <<>> THEN 1
    ELSE 2 * ShingleCode(SubSeq(s, 1, Len(s) - 1)) + (IF s[Len(s)] = "k" THEN 1 ELSE 0)

\* The first four hex digits of hashlib.sha256(s).hexdigest() for every
\* string s over {a, k} of length 0..5, as a number.  The 63 prefixes are
\* pairwise distinct, so comparing them orders and equates the strings
\* exactly as comparing the full hex digests does.
Sha256Prefix ==
  << 58288, 51863, 33364, 38427, 32521, 16059, 44343, 38964,
     31635, 55431, 981, 49781, 47554, 53392, 38639, 25022,
     3869, 13609, 58754, 2948, 1700, 55378, 41924, 55105,
     15268, 14904, 31648, 45548, 52171, 31320, 20538, 60822,
     5205, 59725, 28142, 3439, 55316, 21056, 29804, 30429,
     18308, 51417, 13598, 8063, 14488, 57661, 57831, 4635,
     10832, 61599, 44435, 26911, 29537, 64436, 29278, 57099,
     22971, 55051, 15967, 28325, 41686, 61923, 39937 >>

sha256(shingle) == Sha256Prefix[ShingleCode(shingle)]

\* ------------------------------------------------- winnowing_fingerprint
\* shingles = [t[i:i+k] for i in range(len(t) - k + 1)]
Shingles(t, kk) ==
    [n \in 1..RangeLen(Len(t) - kk + 1) |-> PySlice(t, n - 1, n - 1 + kk)]

\* hashes = [sha256(shingle) for shingle in shingles]
Hashes(t, kk) ==
    LET shingles == Shingles(t, kk)
    IN [n \in 1..Len(shingles) |-> sha256(shingles[n])]

\* Variant: range(len(hashes) - window_size), which drops the last window.
RECURSIVE WinnowLoop_DropsLastWindow(_, _, _, _)
WinnowLoop_DropsLastWindow(hashes, w, i, fingerprints) ==
    IF i >= Len(hashes) - w
    THEN [raised |-> FALSE, value |-> fingerprints]
    ELSE LET window == PySlice(hashes, i, i + w)
         IN IF window = <<>>
            THEN [raised |-> TRUE, value |-> <<>>]
            ELSE WinnowLoop_DropsLastWindow(hashes, w, i + 1,
                                            Append(fingerprints, PyMin(window)))

\* for i in range(len(hashes) - window_size + 1): ... min(window) ...
\* min() of an empty window raises ValueError and ends the call.
RECURSIVE WinnowLoop(_, _, _, _)
WinnowLoop(hashes, w, i, fingerprints) ==
    IF i >= Len(hashes) - w + 1
    THEN [raised |-> FALSE, value |-> fingerprints]
    ELSE LET window == PySlice(hashes, i, i + w)
         IN IF window = <<>>
            THEN [raised |-> TRUE, value |-> <<>>]
            ELSE WinnowLoop(hashes, w, i + 1, Append(fingerprints, PyMin(window)))

\* Variant: no early return for a text shorter than k.
winnowing_fingerprint_NoEarlyReturn(text, kk, w) ==
    WinnowLoop(Hashes(TextForShingles(text), kk), w, 0, <<>>)

winnowing_fingerprint(text, kk, w) ==
    LET text_for_shingles == TextForShingles(text)
    IN IF Len(text_for_shingles) < kk
       THEN [raised |-> FALSE, value |-> <<>>]
       ELSE WinnowLoop(Hashes(text_for_shingles, kk), w, 0, <<>>)

\* ----------------------------------------------------- compare_documents
RECURSIVE Gcd(_, _)
Gcd(a, b) == IF b = 0 THEN a ELSE Gcd(b, a % b)

\* len(common) / len(union) * 100 as a fraction in lowest terms
Percent(c, u) ==
    LET g == Gcd(100 * c, u)
    IN [num |-> (100 * c) \div g, den |-> u \div g]

Zero == [num |-> 0, den |-> 1]
NotComputed == [raised |-> FALSE, value |-> <<>>]

\* Variants of compare_documents: the union taken as len(f1) + len(f2) of
\* the sets; the intersection divided by len(set_f1); and no guard for
\* empty sets, so that two empty sets divide by zero.
CompareWith(d1, d2, kk, w, Denominator(_, _), guarded) ==
    LET r1 == winnowing_fingerprint(d1, kk, w)
        r2 == winnowing_fingerprint(d2, kk, w)
        set_f1 == PySet(r1.value)
        set_f2 == PySet(r2.value)
    IN IF r1.raised
       THEN [raised |-> TRUE, f1 |-> <<>>, f2 |-> <<>>, similarity |-> [num |-> 0, den |-> 1]]
       ELSE IF r2.raised
       THEN [raised |-> TRUE, f1 |-> r1.value, f2 |-> <<>>, similarity |-> [num |-> 0, den |-> 1]]
       ELSE IF guarded /\ (set_f1 = {} \/ set_f2 = {})
       THEN [raised |-> FALSE, f1 |-> r1.value, f2 |-> r2.value,
             similarity |-> [num |-> 0, den |-> 1]]
       ELSE IF Denominator(set_f1, set_f2) = 0
       THEN [raised |-> TRUE, f1 |-> r1.value, f2 |-> r2.value,
             similarity |-> [num |-> 0, den |-> 1]]
       ELSE [raised |-> FALSE, f1 |-> r1.value, f2 |-> r2.value,
             similarity |-> Percent(Cardinality(set_f1 \cap set_f2),
                                    Denominator(set_f1, set_f2))]

compare_documents_SumAsUnion(d1, d2, kk, w) ==
    LET Sum(a, b) == Cardinality(a) + Cardinality(b)
    IN CompareWith(d1, d2, kk, w, Sum, TRUE)

compare_documents_DividesByFirst(d1, d2, kk, w) ==
    LET First(a, b) == Cardinality(a)
    IN CompareWith(d1, d2, kk, w, First, TRUE)

compare_documents_NoGuard(d1, d2, kk, w) ==
    LET Union(a, b) == Cardinality(a \cup b)
    IN CompareWith(d1, d2, kk, w, Union, FALSE)

\* The locals of compare_documents when it returns or raises.
compare_documents(d1, d2, kk, w) ==
    LET r1 == winnowing_fingerprint(d1, kk, w)
        r2 == winnowing_fingerprint(d2, kk, w)
        set_f1 == PySet(r1.value)
        set_f2 == PySet(r2.value)
        common_fingerprints == set_f1 \cap set_f2
        union_fingerprints == set_f1 \cup set_f2
    IN IF r1.raised
       THEN [raised |-> TRUE, f1 |-> <<>>, f2 |-> <<>>, similarity |-> Zero]
       ELSE IF r2.raised
       THEN [raised |-> TRUE, f1 |-> r1.value, f2 |-> <<>>, similarity |-> Zero]
       ELSE IF set_f1 = {} \/ set_f2 = {}
       THEN [raised |-> FALSE, f1 |-> r1.value, f2 |-> r2.value, similarity |-> Zero]
       ELSE [raised |-> FALSE, f1 |-> r1.value, f2 |-> r2.value,
             similarity |-> Percent(Cardinality(common_fingerprints),
                                    Cardinality(union_fingerprints))]

\* ----------------------------------------------------------------- state
\* docA, docB: the texts at hand; k, window_size: the parameters.
\* pc, doc1, doc2, fingerprints, result: a direct call of
\* winnowing_fingerprint or compare_documents, its arguments and outcome.
\* The rest is the /plagiarism handler: its position (req), its locals, the
\* rows of table hasil_cek (db), the clock and the last response.
VARIABLES docA, docB, k, window_size, pc, doc1, doc2, fingerprints, result,
          req, documents, i, j, similarities, session_id, db, clock, response

coreVars == <<docA, docB, pc, doc1, doc2, fingerprints, result>>
handlerVars == <<req, documents, i, j, similarities, session_id, db, clock, response>>
vars == <<docA, docB, k, window_size, pc, doc1, doc2, fingerprints, result,
          req, documents, i, j, similarities, session_id, db, clock, response>>

KRange == (0 - 1)..MaxK
WRange == (0 - 1)..MaxW

NoResult == [raised |-> FALSE, f1 |-> <<>>, f2 |-> <<>>, similarity |-> Zero]

InitCalls ==
    /\ pc = "input"
    /\ doc1 = <<>>
    /\ doc2 = <<>>
    /\ fingerprints = NotComputed
    /\ result = NoResult

NoResponse == [status |-> 0, similarities |-> <<>>, session_id |-> 0]

\* No request yet; init_db() has created an empty table.
InitHandler ==
    /\ req = "idle"
    /\ documents = <<>>
    /\ i = 0
    /\ j = 0
    /\ similarities = <<>>
    /\ session_id = 0
    /\ db = <<>>
    /\ clock = 0
    /\ response = NoResponse

\* Two already-dense texts and the two parameters.
Init ==
    /\ docA \in TextsUpTo(LowerLetters, MaxLen)
    /\ docB \in TextsUpTo(LowerLetters, MaxLen)
    /\ k \in KRange
    /\ window_size \in WRange
    /\ InitCalls
    /\ InitHandler

\* winnowing_fingerprint(text, k, window_size)
CallFingerprint(text) ==
    /\ pc = "input"
    /\ pc' = "fingerprint"
    /\ doc1' = text
    /\ fingerprints' = winnowing_fingerprint(text, k, window_size)
    /\ UNCHANGED <<docA, docB, k, window_size, doc2, result>>
    /\ UNCHANGED handlerVars

\* compare_documents(d1, d2, k, window_size)
CallCompare(d1, d2) ==
    /\ pc = "input"
    /\ pc' = "compare"
    /\ doc1' = d1
    /\ doc2' = d2
    /\ result' = compare_documents(d1, d2, k, window_size)
    /\ UNCHANGED <<docA, docB, k, window_size, fingerprints>>
    /\ UNCHANGED handlerVars

Next ==
    \/ \E text \in {docA, docB} : CallFingerprint(text)
    \/ \E d1 \in {docA, docB}, d2 \in {docA, docB} : CallCompare(d1, d2)

Spec == Init /\ [][Next]_vars

\* ---------------------------------------------------- /plagiarism handler
\* The documents a request can carry: raw texts; a list may repeat a
\* document, so names are not unique.
Docs ==
    { [name |-> "x.pdf", text |-> <<"a", "k", "a">>],
      [name |-> "y.pdf", text |-> <<"A", "k", "!", "k">>] }

RECURSIVE DocListsUpTo(_)
DocListsUpTo(n) ==
    IF n = 0 THEN {<<>>}
    ELSE LET shorter == DocListsUpTo(n - 1)
         IN shorter \cup {Append(l, d) : l \in {s \in shorter : Len(s) = n - 1}, d \in Docs}

\* Variant: doc1_name is bound to both name columns.
save_result_to_db_SameName(rows, sid, doc1_name, doc2_name, doc1_text, doc2_text, similarity) ==
    Append(rows, [id |-> Len(rows) + 1,
                  session_id |-> sid,
                  doc1_name |-> doc1_name,
                  doc2_name |-> doc1_name,
                  doc1_text |-> doc1_text,
                  doc2_text |-> doc2_text,
                  similarity |-> similarity])

\* INSERT INTO hasil_cek (...) VALUES (...); id is AUTOINCREMENT.
save_result_to_db(rows, sid, doc1_name, doc2_name, doc1_text, doc2_text, similarity) ==
    Append(rows, [id |-> Len(rows) + 1,
                  session_id |-> sid,
                  doc1_name |-> doc1_name,
                  doc2_name |-> doc2_name,
                  doc1_text |-> doc1_text,
                  doc2_text |-> doc2_text,
                  similarity |-> similarity])

\* Variant: the inner loop is range(i, N), pairing a document with itself.
RECURSIVE LoopHeader_InnerFromI(_, _, _)
LoopHeader_InnerFromI(ii, jj, N) ==
    IF ii >= N THEN <<N, N + 1>>
    ELSE IF jj < N THEN <<ii, jj>>
    ELSE LoopHeader_InnerFromI(ii + 1, ii + 1, N)

\* The loop headers: for i in range(N): for j in range(i + 1, N).
\* From a candidate (ii, jj), the indices of the next iteration of the
\* inner body, or <<N, N + 1>> when both loops are exhausted.
RECURSIVE LoopHeader(_, _, _)
LoopHeader(ii, jj, N) ==
    IF ii >= N THEN <<N, N + 1>>
    ELSE IF jj < N THEN <<ii, jj>>
    ELSE LoopHeader(ii + 1, ii + 2, N)

\* data = request.json ... session_id = datetime.now(...).isoformat()
\* The clock advances between requests, so session ids are distinct.
Request(docs, kk, w) ==
    /\ req = "idle"
    /\ clock < MaxRequests
    /\ documents' = docs
    /\ k' = kk
    /\ window_size' = w
    /\ similarities' = <<>>
    /\ clock' = clock + 1
    /\ session_id' = clock + 1
    /\ i' = LoopHeader(0, 1, Len(docs))[1]
    /\ j' = LoopHeader(0, 1, Len(docs))[2]
    /\ req' = "loop"
    /\ UNCHANGED <<db, response>>
    /\ UNCHANGED coreVars

\* One iteration of the inner loop body: compare, append, save.  An
\* exception in compare_documents ends the request with a 500 response.
PairStep ==
    /\ req = "loop"
    /\ i < Len(documents)
    /\ LET d1 == documents[i + 1]
           d2 == documents[j + 1]
           outcome == compare_documents(d1.text, d2.text, k, window_size)
           similarity == outcome.similarity
           res == [doc1_index |-> i,
                   doc2_index |-> j,
                   doc1_name |-> d1.name,
                   doc2_name |-> d2.name,
                   similarity |-> similarity,
                   session_id |-> session_id]
       IN IF outcome.raised
          THEN /\ req' = "idle"
               /\ response' = [status |-> 500, similarities |-> <<>>, session_id |-> 0]
               /\ UNCHANGED <<similarities, db, i, j>>
          ELSE /\ similarities' = Append(similarities, res)
               /\ db' = save_result_to_db(db, session_id, d1.name, d2.name,
                                          d1.text, d2.text, similarity)
               /\ i' = LoopHeader(i, j + 1, Len(documents))[1]
               /\ j' = LoopHeader(i, j + 1, Len(documents))[2]
               /\ UNCHANGED <<req, response>>
    /\ UNCHANGED <<documents, k, window_size, session_id, clock>>
    /\ UNCHANGED coreVars

\* return jsonify({'similarities': similarities, 'session_id': session_id})
Return ==
    /\ req = "loop"
    /\ i >= Len(documents)
    /\ req' = "idle"
    /\ response' = [status |-> 200, similarities |-> similarities, session_id |-> session_id]
    /\ UNCHANGED <<documents, k, window_size, i, j, similarities, session_id, db, clock>>
    /\ UNCHANGED coreVars

InitBatch ==
    /\ docA = <<>>
    /\ docB = <<>>
    /\ k = 1
    /\ window_size = 1
    /\ InitCalls
    /\ InitHandler

\* Requests carry k >= 1 and window_size >= 0; window_size = 0 makes
\* compare_documents raise as soon as a text has at least k letters.
NextBatch ==
    \/ \E docs \in DocListsUpTo(MaxDocs), kk \in 1..MaxK, w \in 0..MaxW : Request(docs, kk, w)
    \/ PairStep
    \/ Return

SpecBatch == InitBatch /\ [][NextBatch]_vars

\* ------------------------------------------- raw texts and their letters
\* The ASCII letters of a raw text, in order, in lowercase.
AsciiLetters(text) ==
    LET Fold(c) == CASE c = "A" -> "a" [] c = "K" -> "k" [] OTHER -> c
        IsLetter(c) == c \in LowerLetters \cup UpperLetters
        letters == SelectSeq(text, IsLetter)
    IN [n \in 1..Len(letters) |-> Fold(letters[n])]

\* A raw text docB and the text docA it becomes when every ASCII letter is
\* lowercased and every other character is dropped: docA and docB differ
\* only in letter case, in characters that are not ASCII letters, and in
\* whitespace.
InitNorm ==
    /\ docB \in TextsUpTo(Chars, MaxRawLen)
    /\ docA = AsciiLetters(docB)
    /\ k \in KRange
    /\ window_size \in WRange
    /\ InitCalls
    /\ InitHandler

SpecNorm == InitNorm /\ [][Next]_vars

\* ---------------------------------------------------------------- claims
Hundred == [num |-> 100, den |-> 1]
ValidParameters == k >= 1 /\ window_size >= 1
DenseLen(text) == Len(TextForShingles(text))

\* C1 (as claimed): every call with k < 1 or window_size < 1 is rejected;
\* it never returns a fingerprint list or a similarity score.
C1_InvalidParametersRejected ==
    ~ValidParameters =>
        /\ pc = "fingerprint" => fingerprints.raised
        /\ pc = "compare" => result.raised

\* C2 (as claimed): for valid parameters compare_documents(A, A) is 100.0
\* whenever the dense length of A is >= k and 0.0 when it is < k.
C2_SelfSimilarityFromK ==
    (pc = "compare" /\ doc1 = doc2 /\ ValidParameters) =>
        /\ ~result.raised
        /\ DenseLen(doc1) >= k => result.similarity = Hundred
        /\ DenseLen(doc1) < k => result.similarity = Zero

\* C2 (amended): for valid parameters compare_documents(A, A) is 100.0
\* whenever the dense length of A is >= k + window_size - 1 (at least one
\* full window of shingles) and 0.0 when it is shorter.
C2_SelfSimilarityFromWindow ==
    (pc = "compare" /\ doc1 = doc2 /\ ValidParameters) =>
        /\ ~result.raised
        /\ DenseLen(doc1) >= k + window_size - 1 => result.similarity = Hundred
        /\ DenseLen(doc1) < k + window_size - 1 => result.similarity = Zero

C2_Witness ==
    /\ pc = "compare" /\ doc1 = doc2 /\ k = 2 /\ window_size = 2
    /\ doc1 # TextForShingles(doc1)
    /\ DenseLen(doc1) = 3
    /\ result.similarity = Hundred

CommonSubstring(s, t, m) ==
    \E a \in 0..(Len(s) - m), b \in 0..(Len(t) - m) :
        SubSeq(s, a + 1, a + m) = SubSeq(t, b + 1, b + m)

WindowsCovered(text, fps) ==
    LET h == Hashes(TextForShingles(text), k)
    IN \A start \in 0..(Len(h) - window_size) :
           \E n \in (start + 1)..(start + window_size) : h[n] \in PySet(fps)

\* C4: for valid parameters, two texts whose dense forms share a substring
\* of length >= k + window_size - 1 have a common fingerprint and a
\* similarity > 0, and every window of window_size consecutive shingle
\* hashes of a document contains one of that document's fingerprints.
C4_SharedSubstringDetected ==
    (pc = "compare" /\ ValidParameters) =>
        /\ ~result.raised
        /\ CommonSubstring(TextForShingles(doc1), TextForShingles(doc2),
                           k + window_size - 1)
              => /\ PySet(result.f1) \cap PySet(result.f2) # {}
                 /\ result.similarity.num > 0
        /\ WindowsCovered(doc1, result.f1)
        /\ WindowsCovered(doc2, result.f2)

C4_Witness ==
    /\ pc = "compare" /\ k = 2 /\ window_size = 2
    /\ doc1 # doc2
    /\ CommonSubstring(doc1, doc2, 3)
    /\ result.similarity.num > 0
    /\ result.similarity # Hundred

WindowMin(h, start, w) ==
    CHOOSE m \in {h[n] : n \in (start + 1)..(start + w)} :
        \A n \in (start + 1)..(start + w) : m <= h[n]

\* C5: for window_size >= 1 the fingerprint set is exactly the set of the
\* minima of the windows h[i..i+w), 0 <= i <= n - w, of the n shingle
\* hashes; it is empty when n < w, and when n >= w it has at most
\* n - w + 1 elements.
C5_FingerprintsAreWindowMinima ==
    (pc = "fingerprint" /\ window_size >= 1) =>
        LET h == Hashes(TextForShingles(doc1), k)
            n == Len(h)
            fps == PySet(fingerprints.value)
        IN /\ ~fingerprints.raised
           /\ fps = {WindowMin(h, start, window_size) : start \in 0..(n - window_size)}
           /\ n < window_size => fps = {}
           /\ n >= window_size => Cardinality(fps) <= n - window_size + 1

C5_Witness ==
    /\ pc = "fingerprint" /\ k = 1 /\ window_size = 2
    /\ Len(fingerprints.value) = 3
    /\ Cardinality(PySet(fingerprints.value)) = 2

\* C6: a text whose dense length is < k has an empty fingerprint list for
\* every window_size, without an error, and for valid parameters
\* compare_documents with such a text on either side returns 0.0.
C6_ShortTextIsEmpty ==
    /\ (pc = "fingerprint" /\ DenseLen(doc1) < k) =>
           /\ ~fingerprints.raised
           /\ fingerprints.value = <<>>
    /\ (pc = "compare" /\ ValidParameters
           /\ (DenseLen(doc1) < k \/ DenseLen(doc2) < k)) =>
           /\ ~result.raised
           /\ result.similarity = Zero

C6_Witness ==
    /\ pc = "compare" /\ k = 2 /\ window_size = 1
    /\ DenseLen(doc1) < k
    /\ DenseLen(doc2) >= k /\ Len(doc2) = 3
    /\ result.f1 = <<>> /\ result.f2 # <<>>
    /\ result.similarity = Zero

\* C7: compare_documents never fails for window_size >= 1; it returns 0.0
\* if either fingerprint set is empty and 100 * |F1 & F2| / |F1 | F2|
\* otherwise; the score is in [0, 100], is 100 exactly when F1 = F2 # {},
\* and is 0 exactly when the sets are disjoint or one is empty.
C7_JaccardPercent ==
    (pc = "compare") =>
        LET F1 == PySet(result.f1)
            F2 == PySet(result.f2)
            s == result.similarity
        IN /\ window_size >= 1 => ~result.raised
           /\ ~result.raised =>
                /\ (F1 = {} \/ F2 = {}) => s = Zero
                /\ (F1 # {} /\ F2 # {}) =>
                      s.num * Cardinality(F1 \cup F2)
                        = 100 * Cardinality(F1 \cap F2) * s.den
                /\ s.den >= 1 /\ s.num >= 0 /\ s.num <= 100 * s.den
                /\ (s = Hundred) <=> (F1 = F2 /\ F1 # {})
                /\ (s.num = 0) <=> (F1 \cap F2 = {})

C7_Witness ==
    /\ pc = "compare" /\ ValidParameters
    /\ ~result.raised
    /\ result.similarity = [num |-> 100, den |-> 3]

\* C8: compare_documents(A, B, k, w) and compare_documents(B, A, k, w) have
\* the same outcome: both fail or both return the same score.
C8_Symmetric ==
    (pc = "compare") =>
        LET swapped == compare_documents(doc2, doc1, k, window_size)
        IN /\ swapped.raised = result.raised
           /\ swapped.similarity = result.similarity

C8_Witness ==
    /\ pc = "compare" /\ ValidParameters
    /\ PySet(result.f1) # PySet(result.f2)
    /\ Cardinality(PySet(result.f1)) # Cardinality(PySet(result.f2))
    /\ result.similarity.num > 0

SameFingerprints ==
    /\ PySet(result.f1) = PySet(result.f2)
    /\ result.similarity = compare_documents(docA, docA, k, window_size).similarity
    /\ result.similarity = compare_documents(docB, docB, k, window_size).similarity

\* C9 (as claimed, here already for valid parameters): two texts that
\* differ only in letter case, in characters that are not ASCII letters and
\* in whitespace have the same fingerprint set, and compare_documents
\* scores them like either alone.
C9_NormalizationInvariant ==
    (pc = "compare" /\ doc1 = docA /\ doc2 = docB /\ ValidParameters)
        => (~result.raised /\ SameFingerprints)

\* C9 (amended): the same for every k and window_size with which the call
\* returns, provided none of the characters that are not
\* ASCII letters has a lowercase form containing an ASCII letter (such as
\* U+212A KELVIN SIGN).
C9_NormalizationInvariantAmended ==
    (pc = "compare" /\ doc1 = docA /\ doc2 = docB /\ ~result.raised
        /\ \A n \in 1..Len(docB) :
              docB[n] \in LowerLetters \cup UpperLetters
                \/ LowerChar(docB[n]) \notin LowerLetters)
        => SameFingerprints

C9_Witness ==
    /\ pc = "compare" /\ doc1 = docA /\ doc2 = docB
    /\ docB = <<"A", " ", "K">>
    /\ k = 1 /\ window_size = 2
    /\ result.f1 # <<>>
    /\ PySet(result.f1) = PySet(result.f2)

\* The pairs (a, b), a < b < N, that precede (ii, jj) lexicographically.
PairsBefore(ii, jj, N) ==
    {p \in (0..(N - 1)) \X (0..(N - 1)) :
        /\ p[1] < p[2]
        /\ (p[1] < ii \/ (p[1] = ii /\ p[2] < jj))}

WellFormedResults(sims, docs) ==
    /\ \A n \in 1..Len(sims) :
          /\ sims[n].doc1_index < sims[n].doc2_index
          /\ sims[n].doc2_index < Len(docs)
          /\ sims[n].doc1_name = docs[sims[n].doc1_index + 1].name
          /\ sims[n].doc2_name = docs[sims[n].doc2_index + 1].name
    /\ \A n \in 1..Len(sims), m \in 1..Len(sims) :
          n < m => \/ sims[n].doc1_index < sims[m].doc1_index
                   \/ /\ sims[n].doc1_index = sims[m].doc1_index
                      /\ sims[n].doc2_index < sims[m].doc2_index

\* C3: a returned batch over N documents has exactly N * (N - 1) / 2
\* results, each with doc1_index < doc2_index and the names of documents
\* i and j, every pair i < j exactly once, in ascending (i, j) order; while
\* the loops run, the results so far are the pairs before (i, j).
C3_AllPairsOnceInOrder ==
    LET N == Len(documents)
    IN /\ (req = "idle" /\ response.status = 200) =>
            /\ 2 * Len(response.similarities) = N * (N - 1)
            /\ WellFormedResults(response.similarities, documents)
            /\ \A a \in 0..(N - 1), b \in 0..(N - 1) :
                  a < b => Cardinality({n \in 1..Len(response.similarities) :
                                          /\ response.similarities[n].doc1_index = a
                                          /\ response.similarities[n].doc2_index = b}) = 1
       /\ req = "loop" =>
            /\ WellFormedResults(similarities, documents)
            /\ {<<similarities[n].doc1_index, similarities[n].doc2_index>> :
                     n \in 1..Len(similarities)} = PairsBefore(i, j, N)
            /\ Len(similarities) = Cardinality(PairsBefore(i, j, N))

C3_Witness ==
    /\ req = "idle" /\ response.status = 200
    /\ Len(documents) = 3
    /\ Len(response.similarities) = 3
    /\ documents[1].name = documents[3].name
    /\ documents[1].name # documents[2].name
    /\ response.similarities[1].similarity # response.similarities[2].similarity

\* C10: the rows stored under the request's session_id are, in order, the
\* results produced so far: one row per result with the same names and
\* similarity; every result carries the request's session_id, and so does
\* the response.
C10_OneRowPerResult ==
    LET InSession(row) == row.session_id = session_id
        rows == SelectSeq(db, InSession)
    IN /\ Len(rows) = Len(similarities)
       /\ \A n \in 1..Len(similarities) :
             /\ similarities[n].session_id = session_id
             /\ rows[n].doc1_name = similarities[n].doc1_name
             /\ rows[n].doc2_name = similarities[n].doc2_name
             /\ rows[n].similarity = similarities[n].similarity
             /\ rows[n].doc1_name = documents[similarities[n].doc1_index + 1].name
             /\ rows[n].doc2_name = documents[similarities[n].doc2_index + 1].name
       /\ (req = "idle" /\ response.status = 200) =>
             /\ response.session_id = session_id
             /\ response.similarities = similarities

C10_Witness ==
    /\ req = "idle" /\ response.status = 200
    /\ Len(db) = 3
    /\ db[1].doc1_name # db[1].doc2_name
    /\ db[1].similarity # db[2].similarity
    /\ db[1].similarity.num > 0

====
